---- MODULE Spec2Model ----
(***************************************************************************)
(* A model of packaging/version.py (the PEP 386 version scheme): the       *)
(* grammar parser Version._parse, the canonical string parts_to_str, the   *)
(* round trip from_parts, the comparison operators over Version.parts, the *)
(* normalizer suggest_normalized_version and the class VersionPredicate.   *)
(*                                                                         *)
(* A Python str is a sequence of one-character strings, so that the        *)
(* regular expression, int(), str() and split() are computed and not       *)
(* assumed.  A Python tuple is a sequence of elements, each an int or a    *)
(* str (IntEl, StrEl).  A call that can raise returns a record whose field *)
(* raised names the exception ("none" when it returns normally).           *)
(***************************************************************************)
EXTENDS Integers, Sequences, FiniteSets, TLC

VARIABLES pc, args, objs, raised, ret

vars == <<pc, args, objs, raised, ret>>

(***************************************************************************)
(* Python values                                                           *)
(***************************************************************************)

\* Python's None; no str is equal to it (a str holds one-character strings).
None == <<"None">>

\* The decimal digits; the digit of value d is DigitChars[d + 1].
DigitChars == <<"0", "1", "2", "3", "4", "5", "6", "7", "8", "9">>

\* The letters; the lower case of UpperChars[i] is LowerChars[i].
UpperChars ==
    <<"A", "B", "C", "D", "E", "F", "G", "H", "I", "J", "K", "L", "M",
      "N", "O", "P", "Q", "R", "S", "T", "U", "V", "W", "X", "Y", "Z">>

LowerChars ==
    <<"a", "b", "c", "d", "e", "f", "g", "h", "i", "j", "k", "l", "m",
      "n", "o", "p", "q", "r", "s", "t", "u", "v", "w", "x", "y", "z">>

\* The characters of the model in code point order (only the order is used).
Alphabet ==
    <<"\n", " ", "!", "(", ")", "+", ",", "-", ".">> \o DigitChars \o
    <<"<", "=", ">">> \o UpperChars \o <<"_">> \o LowerChars \o <<"~">>

\* The regular expression's \d.
IsDigit(c) == \E i \in 1..Len(DigitChars) : DigitChars[i] = c

DigitVal(c) == (CHOOSE i \in 1..Len(DigitChars) : DigitChars[i] = c) - 1

\* The rank of a character in code point order.
ord(c) == CHOOSE i \in 1..Len(Alphabet) : Alphabet[i] = c

\* int(n) of a str of decimal digits.
RECURSIVE int(_)
int(n) ==
    IF n = <<>> THEN 0
    ELSE 10 * int(SubSeq(n, 1, Len(n) - 1)) + DigitVal(n[Len(n)])

\* str(v) of a non-negative int.
RECURSIVE str_int(_)
str_int(v) ==
    IF v < 10 THEN <<DigitChars[v + 1]>>
    ELSE str_int(v \div 10) \o <<DigitChars[(v % 10) + 1]>>

\* An element of a tuple: an int or a str.
IntEl(v) == [t |-> "int", n |-> v, s |-> <<>>]

StrEl(v) == [t |-> "str", n |-> 0, s |-> v]

\* str(v) of an element of a tuple.
str(e) == IF e.t = "int" THEN str_int(e.n) ELSE e.s

\* s.split(".")
RECURSIVE split(_)
split(s) ==
    IF \A i \in 1..Len(s) : s[i] # "." THEN <<s>>
    ELSE LET d == CHOOSE i \in 1..Len(s) :
                      s[i] = "." /\ \A j \in 1..(i - 1) : s[j] # "."
         IN  <<SubSeq(s, 1, d - 1)>> \o split(SubSeq(s, d + 1, Len(s)))

\* '.'.join(str(v) for v in t)
RECURSIVE join(_)
join(t) ==
    IF t = <<>> THEN <<>>
    ELSE IF Len(t) = 1 THEN str(t[1])
    ELSE str(t[1]) \o <<".">> \o join(Tail(t))

(***************************************************************************)
(* _VERSION_RE                                                             *)
(***************************************************************************)

\* The literals of the post and dev markers.
POST == <<".", "p", "o", "s", "t">>

DEV == <<".", "d", "e", "v">>

\* The position after the longest run of digits of s that starts at i
\* (i itself when s has no digit there): the greedy \d+.
RECURSIVE DigitsEnd(_, _)
DigitsEnd(s, i) ==
    IF i <= Len(s) /\ IsDigit(s[i]) THEN DigitsEnd(s, i + 1) ELSE i

\* The position after the longest (?:\.\d+)* of s that starts at i.
RECURSIVE DotNumsEnd(_, _)
DotNumsEnd(s, i) ==
    IF i + 1 <= Len(s) /\ s[i] = "." /\ IsDigit(s[i + 1])
    THEN DotNumsEnd(s, DigitsEnd(s, i + 1))
    ELSE i

\* Whether the literal lit is in s at position i.
LitAt(s, i, lit) ==
    /\ i + Len(lit) - 1 <= Len(s)
    /\ \A k \in 1..Len(lit) : s[i + k - 1] = lit[k]

\* The position after \d+(?:\.\d+)* of s at i, or 0 when it does not match.
NumDotsEnd(s, i) ==
    IF DigitsEnd(s, i) > i THEN DotNumsEnd(s, DigitsEnd(s, i)) ELSE 0

\* The position after "lit\d+" of s at i, or 0 when it does not match.
MarkerEnd(s, i, lit) ==
    IF LitAt(s, i, lit) /\ DigitsEnd(s, i + Len(lit)) > i + Len(lit)
    THEN DigitsEnd(s, i + Len(lit))
    ELSE 0

\* The length of the prerelease tag ([abc]|rc) of s at i, or 0.
TagLen(s, i) ==
    IF i <= Len(s) /\ s[i] \in {"a", "b", "c"} THEN 1
    ELSE IF LitAt(s, i, <<"r", "c">>) THEN 2
    ELSE 0

\* AtDollar as it would be had the pattern no '$': the match may end
\* anywhere.
AtDollarUnanchored(s, i) == i <= Len(s) + 1

\* '$' without re.MULTILINE: the end of s, or just before a newline that
\* ends s.
AtDollar(s, i) ==
    \/ i = Len(s) + 1
    \/ i = Len(s) /\ s[i] = "\n"

\* The end of ^(?P<version>\d+\.\d+), whose first \d+ ends at e1, or 0 when
\* s does not start with it.
VersionEnd(s, e1) ==
    IF /\ e1 > 1
       /\ e1 <= Len(s)
       /\ s[e1] = "."
       /\ DigitsEnd(s, e1 + 1) > e1 + 1
    THEN DigitsEnd(s, e1 + 1)
    ELSE 0

\* The end of (?P<prerel>[abc]|rc)(?P<prerelversion>\d+(?:\.\d+)*) of s at
\* i, or 0 when it does not match there (the optional group is skipped).
PrerelEnd(s, i) ==
    IF TagLen(s, i) > 0 THEN NumDotsEnd(s, i + TagLen(s, i)) ELSE 0

\* The position after an optional group that starts at i and ends at e
\* (e = 0: the group did not match).
After(i, e) == IF e > 0 THEN e ELSE i

\* The result of a search without a match.
NoMatch ==
    [match |-> FALSE, version |-> None, extraversion |-> None,
     prerel |-> None, prerelversion |-> None, postdev |-> None,
     post |-> None, dev |-> None]

\* The groupdict() of the match of s whose groups end at e2 (version), e3
\* (extraversion), pe (the prerelease), po ('.postN') and de ('.devN'), the
\* last three 0 for a group that did not match; NoMatch when '$' does not
\* match where the groups end.
GroupDict(s, e2, e3, pe, po, de) ==
    IF ~ AtDollar(s, After(After(After(e3, pe), po), de)) THEN NoMatch
    ELSE [match         |-> TRUE,
          version       |-> SubSeq(s, 1, e2 - 1),
          extraversion  |-> SubSeq(s, e2, e3 - 1),
          prerel        |-> IF pe > 0
                            THEN SubSeq(s, e3, e3 + TagLen(s, e3) - 1)
                            ELSE None,
          prerelversion |-> IF pe > 0
                            THEN SubSeq(s, e3 + TagLen(s, e3), pe - 1)
                            ELSE None,
          postdev       |-> SubSeq(s, After(e3, pe),
                                   After(After(After(e3, pe), po), de) - 1),
          post          |-> IF po > 0
                            THEN SubSeq(s, After(e3, pe) + Len(POST), po - 1)
                            ELSE None,
          dev           |-> IF de > 0
                            THEN SubSeq(s, After(After(e3, pe), po) + Len(DEV),
                                        de - 1)
                            ELSE None]

\* The match of s from '.devN' on.
MatchDev(s, e2, e3, pe, po) ==
    GroupDict(s, e2, e3, pe, po, MarkerEnd(s, After(After(e3, pe), po), DEV))

\* The match of s from '.postN' on.
MatchPost(s, e2, e3, pe) ==
    MatchDev(s, e2, e3, pe, MarkerEnd(s, After(e3, pe), POST))

\* The match of s from the prerelease on.
MatchPrerel(s, e2, e3) == MatchPost(s, e2, e3, PrerelEnd(s, e3))

\* The match of s from extraversion on.
MatchExtra(s, e2) ==
    IF e2 = 0 THEN NoMatch ELSE MatchPrerel(s, e2, DotNumsEnd(s, e2))

\* _VERSION_RE.search(s): whether s matches (match) and, when it does, the
\* groupdict() of the match.  The pattern starts with '^', so the only match
\* starts at the first character.  Every repetition is followed by a
\* character no digit and no ".<digit>" can stand for, so the greedy match
\* is the only candidate: a shorter one would leave a digit or ".<digit>"
\* where a tag, ".post", ".dev" or the end has to be.
_VERSION_RE(s) == MatchExtra(s, VersionEnd(s, DigitsEnd(s, 1)))

(***************************************************************************)
(* class Version                                                           *)
(***************************************************************************)

_FINAL_MARKER == <<StrEl(<<"z">>)>>

\* The year-like major number above which _parse refuses a version.
HugeMajor == 1980

\* The error raised by a call, and what it returns when it raises nothing.
Raise(e) == [raised |-> e, value |-> None]

Return(v) == [raised |-> "none", value |-> v]

\* Whether a segment of 'N.N.N' has a leading zero.
LeadingZero(n) == Len(n) > 1 /\ n[1] = "0"

\* nums with its trailing zeros popped.
RECURSIVE DropTrailingZeros(_)
DropTrailingZeros(nums) ==
    IF nums # <<>> /\ nums[Len(nums)] = IntEl(0)
    THEN DropTrailingZeros(SubSeq(nums, 1, Len(nums) - 1))
    ELSE nums

\* nums with zeros appended up to the length n.
RECURSIVE PadZeros(_, _)
PadZeros(nums, n) ==
    IF Len(nums) < n THEN PadZeros(Append(nums, IntEl(0)), n) ELSE nums

\* [int(n) for n in ns]
Ints(ns) == [i \in 1..Len(ns) |-> IntEl(int(ns[i]))]

\* The body of _parse_numdots over ns = s.split(".").
NumDots(drop, ns, pad_zeros_length) ==
    IF \E i \in 1..Len(ns) : LeadingZero(ns[i])
    THEN Raise("ValueError")
    ELSE Return(PadZeros(IF drop THEN DropTrailingZeros(Ints(ns))
                         ELSE Ints(ns),
                         pad_zeros_length))

\* Version._parse_numdots(s, full_ver_str, pad_zeros_length), for an object
\* whose drop_trailing_zeros is drop.
_parse_numdots(drop, s, pad_zeros_length) ==
    NumDots(drop, split(s), pad_zeros_length)

\* PostDevParts as it would be were the filler after a post marker without
\* a dev marker left out.
PostDevPartsNoFiller(post, dev) ==
    (IF post # None
     THEN <<_FINAL_MARKER[1], StrEl(<<"p", "o", "s", "t">>), IntEl(int(post))>>
     ELSE <<>>)
    \o (IF dev # None
        THEN <<StrEl(<<"d", "e", "v">>), IntEl(int(dev))>>
        ELSE <<>>)

\* The postdev tuple _parse builds from the groups post and dev.
PostDevParts(post, dev) ==
    (IF post # None
     THEN <<_FINAL_MARKER[1], StrEl(<<"p", "o", "s", "t">>), IntEl(int(post))>>
          \o (IF dev = None THEN <<_FINAL_MARKER[1]>> ELSE <<>>)
     ELSE <<>>)
    \o (IF dev # None
        THEN <<StrEl(<<"d", "e", "v">>), IntEl(int(dev))>>
        ELSE <<>>)

\* ParseEnd as it would be were the guard to refuse the major number 1980
\* as well.
ParseEndAtLeast(error_on_huge_major_num, parts, is_final) ==
    IF error_on_huge_major_num /\ parts[1][1].n >= HugeMajor
    THEN Raise("ValueError")
    ELSE Return([parts |-> parts, is_final |-> is_final])

\* The end of _parse: the parts are set, then the guard against a huge
\* major number.
ParseEnd(error_on_huge_major_num, parts, is_final) ==
    IF error_on_huge_major_num /\ parts[1][1].n > HugeMajor
    THEN Raise("ValueError")
    ELSE Return([parts |-> parts, is_final |-> is_final])

\* ParseBlocks as it would be were a version with a post marker not final.
ParseBlocksPostNotFinal(error_on_huge_major_num, groups, main, extra, pre) ==
    IF \/ main.raised # "none"
       \/ extra.raised # "none"
       \/ pre.raised # "none"
    THEN Raise("ValueError")
    ELSE ParseEnd(error_on_huge_major_num,
                  << main.value \o extra.value,
                     IF groups.prerel # None
                     THEN <<StrEl(groups.prerel)>> \o pre.value
                     ELSE _FINAL_MARKER,
                     IF groups.postdev # <<>>
                     THEN PostDevParts(groups.post, groups.dev)
                     ELSE _FINAL_MARKER >>,
                  groups.prerel = None /\ groups.postdev = <<>>)

\* _parse after the three calls of _parse_numdots: main (version), extra
\* (extraversion) and pre (prerelversion) are their results.
ParseBlocks(error_on_huge_major_num, groups, main, extra, pre) ==
    IF \/ main.raised # "none"
       \/ extra.raised # "none"
       \/ pre.raised # "none"
    THEN Raise("ValueError")
    ELSE ParseEnd(error_on_huge_major_num,
                  << main.value \o extra.value,
                     IF groups.prerel # None
                     THEN <<StrEl(groups.prerel)>> \o pre.value
                     ELSE _FINAL_MARKER,
                     IF groups.postdev # <<>>
                     THEN PostDevParts(groups.post, groups.dev)
                     ELSE _FINAL_MARKER >>,
                  /\ groups.prerel = None
                  /\ ~ (groups.postdev # <<>> /\ groups.dev # None))

\* _parse after the search: groups is its result.
ParseGroups(error_on_huge_major_num, drop, groups) ==
    IF ~ groups.match THEN Raise("ValueError")
    ELSE ParseBlocks(error_on_huge_major_num, groups,
                     _parse_numdots(drop, groups.version, 2),
                     IF groups.extraversion # <<>>
                     THEN _parse_numdots(drop, Tail(groups.extraversion), 0)
                     ELSE Return(<<>>),
                     IF groups.prerel # None
                     THEN _parse_numdots(drop, groups.prerelversion, 1)
                     ELSE Return(<<>>))

\* Version._parse(s, error_on_huge_major_num) on an object whose
\* drop_trailing_zeros is drop: the parts and is_final it sets, or the
\* error it raises.
_parse(s, error_on_huge_major_num, drop) ==
    ParseGroups(error_on_huge_major_num, drop, _VERSION_RE(s))

\* The object __init__ leaves when _parse returned p, or the error of p.
NewVersion(version, drop_trailing_zeros, p) ==
    IF p.raised # "none" THEN Raise(p.raised)
    ELSE Return([cls                 |-> "Version",
                 version             |-> version,
                 is_final            |-> p.value.is_final,
                 drop_trailing_zeros |-> drop_trailing_zeros,
                 parts               |-> p.value.parts])

\* Version.__init__(version, error_on_huge_major_num, drop_trailing_zeros):
\* the object constructed, or the error raised.
__init__(version, error_on_huge_major_num, drop_trailing_zeros) ==
    NewVersion(version, drop_trailing_zeros,
               _parse(version, error_on_huge_major_num, drop_trailing_zeros))

\* The loop of parts_to_str over postdev: a '.' before every element of even
\* index i (counted from 0), then the element.
RECURSIVE PostDevStr(_, _)
PostDevStr(postdev, i) ==
    IF i >= Len(postdev) THEN <<>>
    ELSE (IF i % 2 = 0 THEN <<".">> ELSE <<>>)
         \o str(postdev[i + 1]) \o PostDevStr(postdev, i + 1)

\* Version.parts_to_str(parts).  A parsed Version holds _FINAL_MARKER itself
\* wherever a tuple equal to it stands, so 'is not' is '#'.
parts_to_str(parts) ==
    LET main    == parts[1]
        prerel  == parts[2]
        postdev == parts[3]
    IN  join(main)
        \o (IF prerel # _FINAL_MARKER
            THEN str(prerel[1]) \o join(Tail(prerel))
            ELSE <<>>)
        \o (IF postdev # <<>> /\ postdev # _FINAL_MARKER
            THEN PostDevStr(IF postdev[1] = _FINAL_MARKER[1]
                            THEN Tail(postdev) ELSE postdev, 0)
            ELSE <<>>)

\* Version.__str__
__str__(self) == parts_to_str(self.parts)

\* Version.from_parts(version, prerelease, devpost): the constructor with its
\* default options on the canonical string of the parts.
from_parts(version, prerelease, devpost) ==
    __init__(parts_to_str(<<version, prerelease, devpost>>), TRUE, FALSE)

(***************************************************************************)
(* Comparison of Version objects: Python's comparison of the parts tuples  *)
(***************************************************************************)

\* a < b of two str: by the first character that differs, else by length.
RECURSIVE str_lt(_, _)
str_lt(a, b) ==
    IF a = <<>> THEN b # <<>>
    ELSE IF b = <<>> THEN FALSE
    ELSE IF a[1] # b[1] THEN ord(a[1]) < ord(b[1])
    ELSE str_lt(Tail(a), Tail(b))

\* x < y of two elements of a tuple.  No two tuples that _parse builds hold
\* an int and a str at the same index behind an equal prefix; Python 2 puts
\* every int below every str.
el_lt(x, y) ==
    IF x.t = "int" /\ y.t = "int" THEN x.n < y.n
    ELSE IF x.t = "str" /\ y.t = "str" THEN str_lt(x.s, y.s)
    ELSE x.t = "int"

\* a < b of two tuples of elements: the elements at the first index where
\* they differ decide; when one is a prefix of the other the shorter is less.
RECURSIVE tuple_lt(_, _)
tuple_lt(a, b) ==
    IF a = <<>> THEN b # <<>>
    ELSE IF b = <<>> THEN FALSE
    ELSE IF a[1] # b[1] THEN el_lt(a[1], b[1])
    ELSE tuple_lt(Tail(a), Tail(b))

\* parts_lt as it would be were equal tuples taken for ordered (<= for <).
RECURSIVE parts_le(_, _)
parts_le(a, b) ==
    IF a = <<>> THEN TRUE
    ELSE IF b = <<>> THEN FALSE
    ELSE IF a[1] # b[1] THEN tuple_lt(a[1], b[1])
    ELSE parts_le(Tail(a), Tail(b))

\* a < b of two parts tuples (tuples of three tuples).
RECURSIVE parts_lt(_, _)
parts_lt(a, b) ==
    IF a = <<>> THEN b # <<>>
    ELSE IF b = <<>> THEN FALSE
    ELSE IF a[1] # b[1] THEN tuple_lt(a[1], b[1])
    ELSE parts_lt(Tail(a), Tail(b))

\* isinstance(other, Version)
IsVersion(other) == other.cls = "Version"

\* Version.__eq__
__eq__(self, other) ==
    IF ~ IsVersion(other) THEN Raise("TypeError")
    ELSE Return(self.parts = other.parts)

\* Version.__lt__
__lt__(self, other) ==
    IF ~ IsVersion(other) THEN Raise("TypeError")
    ELSE Return(parts_lt(self.parts, other.parts))

\* __ne__ as it would be were a value of another type just unequal to a
\* Version.
NeOrOtherType(self, other) ==
    IF ~ IsVersion(other) THEN Return(TRUE)
    ELSE Return(self.parts # other.parts)

\* Version.__ne__
__ne__(self, other) ==
    LET e == __eq__(self, other)
    IN  IF e.raised # "none" THEN e ELSE Return(~ e.value)

\* Version.__gt__: not (self.__lt__(other) or self.__eq__(other))
__gt__(self, other) ==
    LET l == __lt__(self, other)
        e == __eq__(self, other)
    IN  IF l.raised # "none" THEN l
        ELSE IF l.value THEN Return(FALSE)
        ELSE IF e.raised # "none" THEN e
        ELSE Return(~ e.value)

\* Version.__le__: self.__eq__(other) or self.__lt__(other)
__le__(self, other) ==
    LET e == __eq__(self, other)
        l == __lt__(self, other)
    IN  IF e.raised # "none" THEN e
        ELSE IF e.value THEN Return(TRUE)
        ELSE l

\* Version.__ge__: self.__eq__(other) or self.__gt__(other)
__ge__(self, other) ==
    LET e == __eq__(self, other)
        g == __gt__(self, other)
    IN  IF e.raised # "none" THEN e
        ELSE IF e.value THEN Return(TRUE)
        ELSE g

(***************************************************************************)
(* The version strings handed to the constructor                           *)
(***************************************************************************)

\* The longest release (number of groups) of the enumerated version strings.
MaxGroups == 3

\* The most '.0' groups appended to a release, and the largest prerelease,
\* post and dev number, of the versions that are compared.
MaxPad == 2

MaxNum == 2

Tags == {<<"a">>, <<"b">>, <<"c">>, <<"r", "c">>}

\* The text 'N.N.N' of a sequence of numbers.
NumsText(f) == join([i \in 1..Len(f) |-> IntEl(f[i])])

\* Release texts: every release of up to MaxGroups groups of 0 and 1, some
\* with larger numbers, and some with a group that has a leading zero.
ReleaseTexts ==
    UNION {{NumsText(f) : f \in [1..k -> {0, 1}]} : k \in 1..MaxGroups}
    \cup {NumsText(<<1, 2>>), NumsText(<<1, 10>>), NumsText(<<10, 0>>),
          NumsText(<<2, 0, 1>>), NumsText(<<1980, 0>>), NumsText(<<1981, 0>>),
          NumsText(<<1981>>),
          <<"1", ".", "0", "2">>, <<"0", "1", ".", "2">>,
          <<"1", ".", "0", "0">>, <<"1", ".", "2", ".", "0", "3">>}

\* Prerelease texts: none, or a tag and its numbers (none, some, some with a
\* leading zero).
PrereleaseTexts ==
    {<<>>} \cup
    {tag \o n : tag \in Tags,
                n \in {<<>>, <<"1">>, <<"2">>, <<"1", ".", "0">>,
                       <<"0", "3">>, <<"3", ".", "0", "4">>}}

\* Post/dev texts: the well-formed ones and the malformed ones (a marker
\* without digits, '.dev' before '.post', a marker twice, a leading zero).
PostDevTexts ==
    {<<>>, POST \o <<"1">>, POST \o <<"2">>, DEV \o <<"1">>, DEV \o <<"0">>,
     POST \o <<"1">> \o DEV \o <<"2">>, POST \o <<"4", "5", "6">>,
     DEV \o <<"2">> \o POST \o <<"2">>,
     POST \o <<"1">> \o POST \o <<"2">>, DEV \o <<"1">> \o DEV \o <<"2">>,
     POST \o <<"2">> \o DEV \o <<"3">> \o POST \o <<"4">>,
     POST, DEV, DEV \o <<".", "2">>, POST \o DEV \o <<"1">>,
     POST \o <<"1">> \o DEV, <<"d", "e", "v">>,
     POST \o <<"0", "1">>, DEV \o <<"0", "1">>,
     POST \o <<"1">> \o DEV \o <<"0", "2">>}

\* Strings with a character around a version text.
Wrapped ==
    LET Base == {r \o p \o d :
                    r \in {NumsText(<<1, 0>>), NumsText(<<1>>),
                           NumsText(<<1, 2, 0>>)},
                    p \in {<<>>, <<"a", "1">>, <<"r", "c">>},
                    d \in {<<>>, POST \o <<"1">>, DEV, DEV \o <<"1">>}}
    IN  {s \o w : s \in Base, w \in {<<"\n">>, <<" ">>, <<"x">>, <<".">>,
                                     <<"\n", "\n">>, <<" ", "\n">>}}
        \cup {w \o s : s \in Base, w \in {<<"\n">>, <<" ">>, <<"x">>}}

Inputs ==
    {r \o p \o d : r \in ReleaseTexts, p \in PrereleaseTexts,
                   d \in PostDevTexts}
    \cup Wrapped

(***************************************************************************)
(* Spec: one version string is parsed, serialized and built again from its *)
(* parts                                                                   *)
(***************************************************************************)

Init ==
    /\ pc = "start"
    /\ args \in [version                 : Inputs,
                 error_on_huge_major_num : BOOLEAN,
                 drop_trailing_zeros     : BOOLEAN]
    /\ objs = <<>>
    /\ raised = "none"
    /\ ret = None

\* The effect of a constructor call with the result r: the object is kept,
\* or the error is.
Constructed(r) ==
    /\ raised' = r.raised
    /\ objs' = IF r.raised = "none" THEN Append(objs, r.value) ELSE objs
    /\ pc' = IF r.raised = "none" THEN "constructed" ELSE "failed"

\* v = Version(version, error_on_huge_major_num, drop_trailing_zeros)
Construct ==
    /\ pc = "start"
    /\ Constructed(__init__(args.version, args.error_on_huge_major_num,
                             args.drop_trailing_zeros))
    /\ UNCHANGED <<args, ret>>

\* str(v)
Str ==
    /\ pc = "constructed"
    /\ ret' = __str__(objs[1])
    /\ pc' = "str"
    /\ UNCHANGED <<args, objs, raised>>

\* The effect of a from_parts call with the result r.
Rebuilt(r) ==
    /\ raised' = r.raised
    /\ objs' = IF r.raised = "none" THEN Append(objs, r.value) ELSE objs
    /\ pc' = "from_parts"

\* v2 = Version.from_parts(*v.parts)
FromParts ==
    /\ pc = "str"
    /\ Rebuilt(from_parts(objs[1].parts[1], objs[1].parts[2],
                           objs[1].parts[3]))
    /\ UNCHANGED <<args, ret>>

Next == Construct \/ Str \/ FromParts

Spec == Init /\ [][Next]_vars

(***************************************************************************)
(* SpecOrder: three versions are constructed and compared with each other  *)
(***************************************************************************)

\* The shape of a compared version string: the release base with pad '.0'
\* groups appended, then a prerelease tag and its number (tag <<>>: none),
\* then '.post<post>' and '.dev<dev>' (-1: none).
Shapes ==
    LET Rel == {[base |-> <<1, 2>>, pad |-> k] : k \in 0..MaxPad}
               \cup {[base |-> <<1, 10>>, pad |-> 0]}
        Suf == {[tag |-> <<>>, n |-> -1, post |-> -1, dev |-> -1]}
               \cup {[tag |-> g, n |-> k, post |-> -1, dev |-> -1] :
                        g \in Tags, k \in 1..MaxNum}
               \cup {[tag |-> <<>>, n |-> -1, post |-> k, dev |-> m] :
                        k \in {-1} \cup 1..MaxNum, m \in {-1} \cup 1..MaxNum}
    IN  {[base |-> r.base, pad |-> r.pad, tag |-> x.tag, n |-> x.n,
          post |-> x.post, dev |-> x.dev] : r \in Rel, x \in Suf}

\* The version string of a shape.
ShapeText(d) ==
    NumsText(d.base \o [i \in 1..d.pad |-> 0])
    \o (IF d.tag # <<>> THEN d.tag \o str_int(d.n) ELSE <<>>)
    \o (IF d.post >= 0 THEN POST \o str_int(d.post) ELSE <<>>)
    \o (IF d.dev >= 0 THEN DEV \o str_int(d.dev) ELSE <<>>)

OrderInputs == {ShapeText(d) : d \in Shapes}

\* The shape of each compared version string.
ShapeOf == [s \in OrderInputs |-> CHOOSE d \in Shapes : ShapeText(d) = s]

\* The versions the third operand is drawn from.
ThirdInputs ==
    {ShapeText(d) : d \in {x \in Shapes :
        /\ x.pad = 0
        /\ x.base = <<1, 2>>
        /\ x.n \in {-1, 1}
        /\ x.tag \in {<<>>, <<"b">>}
        /\ x.post \in {-1, 1}
        /\ x.dev = -1}}

\* The constructor arguments of a version string with the default options.
DefaultArgs(s) ==
    [version |-> s, error_on_huge_major_num |-> TRUE,
     drop_trailing_zeros |-> FALSE]

InitOrder ==
    /\ pc = "start"
    /\ \E s1 \in OrderInputs, s2 \in OrderInputs, s3 \in ThirdInputs :
          args = <<DefaultArgs(s1), DefaultArgs(s2), DefaultArgs(s3)>>
    /\ objs = <<>>
    /\ raised = "none"
    /\ ret = None

\* Version(a.version, a.error_on_huge_major_num, a.drop_trailing_zeros)
New(a) ==
    __init__(a.version, a.error_on_huge_major_num, a.drop_trailing_zeros)

\* The effect of the three constructor calls with the results r.
ConstructedAll(r) ==
    IF \A i \in 1..Len(r) : r[i].raised = "none"
    THEN /\ objs' = [i \in 1..Len(r) |-> r[i].value]
         /\ raised' = "none"
         /\ pc' = "constructed"
    ELSE /\ objs' = <<>>
         /\ raised' = "ValueError"
         /\ pc' = "failed"

\* a = Version(s1); b = Version(s2); c = Version(s3)
ConstructAll ==
    /\ pc = "start"
    /\ ConstructedAll([i \in 1..Len(args) |-> New(args[i])])
    /\ UNCHANGED <<args, ret>>

\* The six comparisons of x with y.
Comparisons(x, y) ==
    [eq |-> __eq__(x, y), ne |-> __ne__(x, y), lt |-> __lt__(x, y),
     le |-> __le__(x, y), gt |-> __gt__(x, y), ge |-> __ge__(x, y)]

\* x == y, x != y, x < y, x <= y, x > y, x >= y for every two of a, b, c
CompareAll ==
    /\ pc = "constructed"
    /\ ret' = [i \in 1..Len(objs) |->
                  [j \in 1..Len(objs) |-> Comparisons(objs[i], objs[j])]]
    /\ pc' = "compared"
    /\ UNCHANGED <<args, objs, raised>>

NextOrder == ConstructAll \/ CompareAll

SpecOrder == InitOrder /\ [][NextOrder]_vars

(***************************************************************************)
(* Properties of the comparison (SpecOrder)                                *)
(***************************************************************************)

\* The shape of the i-th version string compared.
Shape(i) == ShapeOf[args[i].version]

\* The value of comparison op of the i-th with the j-th version; a
\* comparison that raised has none.
Holds(r) == r.raised = "none" /\ r.value

\* Whether the release of shape e is the release of shape d with more '.0'
\* groups appended, the rest of the two version strings being the same.
ZeroPadded(d, e) ==
    /\ d.base = e.base
    /\ d.pad < e.pad
    /\ d.tag = e.tag /\ d.n = e.n /\ d.post = e.post /\ d.dev = e.dev

\* C1: two versions that differ only by '.0' groups appended to the release
\* compare equal (Version('1.2') == Version('1.2.0')).
C1_TrailingZerosEqual ==
    pc = "compared" =>
        \A i \in 1..2, j \in 1..2 :
            ZeroPadded(Shape(i), Shape(j)) => Holds(ret[i][j].eq)

\* C4: of a < b, a == b, a > b exactly one holds, and < is transitive.
C4_TotalOrder ==
    pc = "compared" =>
        /\ \A i \in 1..3, j \in 1..3 :
              /\ ret[i][j].lt.raised = "none"
              /\ ret[i][j].eq.raised = "none"
              /\ ret[i][j].gt.raised = "none"
              /\ \/ ret[i][j].lt.value /\ ~ ret[i][j].eq.value
                                       /\ ~ ret[i][j].gt.value
                 \/ ~ ret[i][j].lt.value /\ ret[i][j].eq.value
                                         /\ ~ ret[i][j].gt.value
                 \/ ~ ret[i][j].lt.value /\ ~ ret[i][j].eq.value
                                         /\ ret[i][j].gt.value
        /\ \A i \in 1..3, j \in 1..3, k \in 1..3 :
              ret[i][j].lt.value /\ ret[j][k].lt.value => ret[i][k].lt.value

\* C4 witness: three versions of different releases and kinds were compared
\* and found in ascending order.
C4_Witness ==
    /\ pc = "compared"
    /\ Shape(1).pad < Shape(2).pad
    /\ Shape(2).tag # <<>>
    /\ Shape(3).post >= 0
    /\ ret[3][1].lt.value /\ ret[1][2].lt.value /\ ret[3][2].lt.value

\* Whether shape d is a final version: no prerelease, no post, no dev.
IsFinalShape(d) == d.tag = <<>> /\ d.post = -1 /\ d.dev = -1

\* C5: a final version is greater than every prerelease and every dev-only
\* version whose release is the same after zero-padding, also when the
\* release lengths differ (Version('1.2') > Version('1.2.0a1')).
C5_PaddedReleaseFirst ==
    pc = "compared" =>
        \A i \in 1..2, j \in 1..2 :
            /\ Shape(i).base = Shape(j).base
            /\ IsFinalShape(Shape(i))
            /\ Shape(j).tag # <<>> \/ (Shape(j).dev >= 0 /\ Shape(j).post = -1)
            => Holds(ret[i][j].gt)

\* The rank of the prerelease tags a < b < c (0: another tag, or none).
TagRank(g) ==
    IF g = <<"a">> THEN 1 ELSE IF g = <<"b">> THEN 2
    ELSE IF g = <<"c">> THEN 3 ELSE 0

\* Whether C6 puts the version of shape d below the version of shape e, of
\* the same release: XaN < XbM < XcK < X, a smaller number below a larger
\* one of the same tag, and X.devM < X < X.postN.devM < X.postN < X.post(N+1).
Below(d, e) ==
    \/ /\ TagRank(d.tag) > 0
       /\ \/ TagRank(e.tag) > TagRank(d.tag)
          \/ TagRank(e.tag) = TagRank(d.tag) /\ d.n < e.n
          \/ IsFinalShape(e)
    \/ /\ d.tag = <<>> /\ e.tag = <<>>
       /\ \/ d.post = -1 /\ d.dev >= 0 /\ (e.dev = -1 \/ e.post >= 0)
          \/ IsFinalShape(d) /\ e.post >= 0
          \/ d.post >= 0 /\ d.dev >= 0 /\ e.post = d.post /\ e.dev = -1
          \/ d.post >= 0 /\ e.post > d.post /\ e.dev = -1

\* C6: for one release X, XaN < XbM < XcK < X (a smaller number below a
\* larger one of the same tag) and
\* X.devM < X < X.postN.devM < X.postN < X.post(N+1).
C6_SameReleaseOrder ==
    pc = "compared" =>
        \A i \in 1..2, j \in 1..2 :
            /\ Shape(i).base = Shape(j).base
            /\ Shape(i).pad = Shape(j).pad
            /\ Below(Shape(i), Shape(j))
            => Holds(ret[i][j].lt) /\ Holds(ret[j][i].gt)

\* C6 witness: X.postN.devM was compared with X.postN and found below it.
C6_Witness ==
    /\ pc = "compared"
    /\ Shape(1).base = Shape(2).base /\ Shape(1).pad = Shape(2).pad
    /\ Shape(1).post >= 1 /\ Shape(1).dev >= 1
    /\ Shape(2).post = Shape(1).post /\ Shape(2).dev = -1
    /\ Holds(ret[1][2].lt)

\* C7: 'rc' is an alias of 'c': XrcN == XcN, and XrcN < XcM iff N < M.
C7_RcAliasOfC ==
    pc = "compared" =>
        \A i \in 1..2, j \in 1..2 :
            /\ Shape(i).base = Shape(j).base
            /\ Shape(i).pad = Shape(j).pad
            /\ Shape(i).tag = <<"r", "c">>
            /\ Shape(j).tag = <<"c">>
            => /\ Shape(i).n = Shape(j).n => Holds(ret[i][j].eq)
               /\ Holds(ret[i][j].lt) <=> Shape(i).n < Shape(j).n

(***************************************************************************)
(* Properties of parsing and of the canonical string (Spec)                *)
(***************************************************************************)

\* Whether s has a digit at position i.
DigitAt(s, i) == i >= 1 /\ i <= Len(s) /\ IsDigit(s[i])

\* C2: a parsed Version is built again from its parts: from_parts succeeds,
\* and the Version it gives equals the first and has the same str.
C2_RoundTrip ==
    pc = "from_parts" =>
        /\ raised = "none"
        /\ Holds(__eq__(objs[1], objs[2]))
        /\ __str__(objs[2]) = __str__(objs[1])

\* The index of the element 'post' or 'dev' in a postdev tuple, or 0.
MarkerIndex(postdev, name) ==
    IF \E i \in 1..Len(postdev) : postdev[i] = StrEl(name)
    THEN CHOOSE i \in 1..Len(postdev) : postdev[i] = StrEl(name)
    ELSE 0

\* '.<name><N>' when the postdev tuple holds the marker name with the number
\* N, and nothing when it does not.
MarkerText(postdev, name, i) ==
    IF i = 0 THEN <<>>
    ELSE <<".">> \o name \o str_int(postdev[i + 1].n)

\* The canonical string C3 describes: the release numbers joined by '.',
\* the prerelease tag and its numbers joined by '.', '.postN', '.devM'.
Canonical(parts) ==
    NumsText([i \in 1..Len(parts[1]) |-> parts[1][i].n])
    \o (IF parts[2] = _FINAL_MARKER THEN <<>>
        ELSE parts[2][1].s
             \o NumsText([i \in 1..(Len(parts[2]) - 1) |-> parts[2][i + 1].n]))
    \o MarkerText(parts[3], <<"p", "o", "s", "t">>,
                  MarkerIndex(parts[3], <<"p", "o", "s", "t">>))
    \o MarkerText(parts[3], <<"d", "e", "v">>,
                  MarkerIndex(parts[3], <<"d", "e", "v">>))

\* C3: str(v) is the release, the prerelease, '.postN' and '.devM' of v and
\* nothing else; the filler 'z' of the parts is not in it.
C3_CanonicalString ==
    pc = "str" => ret = Canonical(objs[1].parts)

\* Whether s starts with fewer than two release number groups 'N.N'.
FewerThanTwoGroups(s) ==
    ~ \E e \in 2..Len(s) :
          /\ \A i \in 1..(e - 1) : IsDigit(s[i])
          /\ s[e] = "."
          /\ DigitAt(s, e + 1)

\* Whether s has a prerelease tag (a, b, c, rc) that no number follows.
TagWithoutNumber(s) ==
    \E i \in 1..Len(s) : s[i] \in {"a", "b", "c"} /\ ~ DigitAt(s, i + 1)

\* Whether s has a '.post' or a '.dev' that no digit follows.
MarkerWithoutDigits(s) ==
    \E i \in 1..Len(s) :
        \/ LitAt(s, i, POST) /\ ~ DigitAt(s, i + Len(POST))
        \/ LitAt(s, i, DEV) /\ ~ DigitAt(s, i + Len(DEV))

\* Whether s has a '.dev' before a '.post'.
DevBeforePost(s) ==
    \E i \in 1..Len(s) :
        /\ LitAt(s, i, DEV)
        /\ \E j \in (i + 1)..Len(s) : LitAt(s, j, POST)

\* Whether s has more than one '.post' or more than one '.dev'.
MarkerTwice(s) ==
    \E i \in 1..Len(s) :
        \/ /\ LitAt(s, i, POST)
           /\ \E j \in (i + 1)..Len(s) : LitAt(s, j, POST)
        \/ /\ LitAt(s, i, DEV)
           /\ \E j \in (i + 1)..Len(s) : LitAt(s, j, DEV)

\* Whether Version(args.version) raised ValueError and left no Version, once
\* the constructor was called.
Rejected ==
    /\ pc \in {"start", "failed"}
    /\ pc = "failed" => raised = "ValueError" /\ objs = <<>>

\* C8: a version string with fewer than two release groups, a tag without a
\* number, a '.post' or '.dev' without digits, a '.dev' before a '.post', or
\* a marker twice, is rejected with ValueError.
C8_MalformedRejected ==
    \/ FewerThanTwoGroups(args.version)
    \/ TagWithoutNumber(args.version)
    \/ MarkerWithoutDigits(args.version)
    \/ DevBeforePost(args.version)
    \/ MarkerTwice(args.version)
    => Rejected

\* C8 witness: a string whose only defect is a '.dev' before a '.post' was
\* handed to the constructor, which raised ValueError.
C8_Witness ==
    /\ pc = "failed"
    /\ raised = "ValueError"
    /\ DevBeforePost(args.version)
    /\ ~ FewerThanTwoGroups(args.version)
    /\ ~ TagWithoutNumber(args.version)
    /\ ~ MarkerWithoutDigits(args.version)
    /\ ~ MarkerTwice(args.version)

\* Whether s has a numeric group of more than one digit that starts with 0.
LeadingZeroGroup(s) ==
    \E i \in 1..Len(s) :
        s[i] = "0" /\ ~ DigitAt(s, i - 1) /\ DigitAt(s, i + 1)

\* C9: a version string with a leading zero in any numeric group (release,
\* prerelease numbers, after '.post', after '.dev') is rejected.
C9_LeadingZeroRejected ==
    LeadingZeroGroup(args.version) => Rejected

\* The characters of the grammar of version strings.
GrammarChars ==
    {DigitChars[i] : i \in 1..Len(DigitChars)}
    \cup {".", "a", "b", "c", "r", "p", "o", "s", "t", "d", "e", "v"}

\* C10: a version string with a leading or a trailing character outside the
\* grammar, such as one trailing newline, is rejected.
C10_WholeStringMatches ==
    /\ args.version # <<>>
    /\ \/ args.version[1] \notin GrammarChars
       \/ args.version[Len(args.version)] \notin GrammarChars
    => Rejected

\* The first release number of the version string s, read from its text.
FirstNumber(s) == int(SubSeq(s, 1, DigitsEnd(s, 1) - 1))

\* Whether s is a version string but for the size of its major number: it
\* parses when the guard is off.
GrammarValid(s, drop) == _parse(s, FALSE, drop).raised = "none"

HasDev(v) ==
    \E i \in 1..Len(v.parts[3]) : v.parts[3][i] = StrEl(<<"d", "e", "v">>)

\* C13: is_final of every parsed Version is true iff both its prerelease
\* part and its post/dev part are the final sentinel.
C13_FinalIffSentinels ==
    \A i \in 1..Len(objs) :
        objs[i].is_final <=> /\ objs[i].parts[2] = _FINAL_MARKER
                             /\ objs[i].parts[3] = _FINAL_MARKER

\* C13 as the code and test_version_is_final have it: is_final of every
\* parsed Version is true iff its prerelease part is the final sentinel and
\* its post/dev part has no dev marker; a post marker alone leaves the
\* version final.
C13_FinalIffNoTagNoDev ==
    \A i \in 1..Len(objs) :
        objs[i].is_final <=> /\ objs[i].parts[2] = _FINAL_MARKER
                             /\ ~ HasDev(objs[i])

\* C13 witness: a version with a post marker and no dev marker was parsed
\* and is final.
C13_Witness ==
    /\ pc = "constructed"
    /\ objs[1].is_final
    /\ objs[1].parts[3] # _FINAL_MARKER
    /\ objs[1].parts[2] = _FINAL_MARKER

\* The release r with its trailing zero groups removed, down to two groups
\* at the least.
RECURSIVE TrimRelease(_)
TrimRelease(r) ==
    IF Len(r) > 2 /\ r[Len(r)] = IntEl(0)
    THEN TrimRelease(SubSeq(r, 1, Len(r) - 1))
    ELSE r

\* The parts of the version string of args parsed without the option
\* drop_trailing_zeros.
PartsWithoutDrop ==
    __init__(args.version, args.error_on_huge_major_num, FALSE).value.parts

\* C18: with drop_trailing_zeros the release is the release parsed without
\* the option less its trailing zero groups (two groups at the least), and
\* the prerelease part and the post/dev part are those parsed without the
\* option.
C18_OnlyReleaseChanges ==
    pc = "constructed" /\ args.drop_trailing_zeros
    => /\ objs[1].parts[1] = TrimRelease(PartsWithoutDrop[1])
       /\ objs[1].parts[2] = PartsWithoutDrop[2]
       /\ objs[1].parts[3] = PartsWithoutDrop[3]

(***************************************************************************)
(* SpecOther: a version is compared with an operand of any type            *)
(***************************************************************************)

\* The operands a Version is compared with, each with its class and its
\* text: the str '1.2', None, the int 1, the tuple (1, 2) and, for contrast,
\* a Version.
Others ==
    {[cls |-> "str", value |-> <<"1", ".", "2">>],
     [cls |-> "NoneType", value |-> None],
     [cls |-> "int", value |-> <<"1">>],
     [cls |-> "tuple", value |-> <<"(", "1", ",", " ", "2", ")">>],
     __init__(<<"1", ".", "2">>, TRUE, FALSE).value}

InitOther ==
    /\ pc = "start"
    /\ \E s \in OrderInputs, o \in Others :
          args = [version                 |-> s,
                  error_on_huge_major_num |-> TRUE,
                  drop_trailing_zeros     |-> FALSE,
                  other                   |-> o]
    /\ objs = <<>>
    /\ raised = "none"
    /\ ret = None

\* The effect of the comparison op whose result is r.
Compared(op, r) ==
    /\ pc = "constructed"
    /\ ret' = [op |-> op, value |-> r.value]
    /\ raised' = r.raised
    /\ pc' = "compared"
    /\ UNCHANGED <<args, objs>>

\* v == other
Eq == Compared("==", __eq__(objs[1], args.other))

\* v != other
Ne == Compared("!=", __ne__(objs[1], args.other))

\* v < other
Lt == Compared("<", __lt__(objs[1], args.other))

\* v <= other
Le == Compared("<=", __le__(objs[1], args.other))

\* v > other
Gt == Compared(">", __gt__(objs[1], args.other))

\* v >= other
Ge == Compared(">=", __ge__(objs[1], args.other))

NextOther == Construct \/ Eq \/ Ne \/ Lt \/ Le \/ Gt \/ Ge

SpecOther == InitOther /\ [][NextOther]_vars

\* C12: each of ==, !=, <, <=, >, >= of a Version with an operand that is
\* not a Version raises TypeError and returns no boolean.
C12_OtherTypeRaises ==
    pc = "compared" /\ args.other.cls # "Version"
    => raised = "TypeError" /\ ret.value = None

\* C12 witness: a Version was compared by >= with a str, and TypeError was
\* raised.
C12_Witness ==
    /\ pc = "compared"
    /\ ret.op = ">="
    /\ args.other.cls = "str"
    /\ raised = "TypeError"

(***************************************************************************)
(* suggest_normalized_version                                              *)
(***************************************************************************)

\* s.lower()
lower(s) ==
    [i \in 1..Len(s) |->
        IF \E k \in 1..Len(UpperChars) : UpperChars[k] = s[i]
        THEN LowerChars[CHOOSE k \in 1..Len(UpperChars) : UpperChars[k] = s[i]]
        ELSE s[i]]

\* s.replace(orig, repl), for a non-empty orig.
RECURSIVE replace(_, _, _)
replace(s, orig, repl) ==
    IF Len(s) < Len(orig) THEN s
    ELSE IF LitAt(s, 1, orig)
    THEN repl \o replace(SubSeq(s, Len(orig) + 1, Len(s)), orig, repl)
    ELSE <<s[1]>> \o replace(Tail(s), orig, repl)

\* The words suggest_normalized_version replaces first, in its order: orig
\* and repl of each.
Words ==
    << <<<<"-", "a", "l", "p", "h", "a">>, <<"a">>>>,
       <<<<"-", "b", "e", "t", "a">>, <<"b">>>>,
       <<<<"a", "l", "p", "h", "a">>, <<"a">>>>,
       <<<<"b", "e", "t", "a">>, <<"b">>>>,
       <<<<"r", "c">>, <<"c">>>>,
       <<<<"-", "f", "i", "n", "a", "l">>, <<>>>>,
       <<<<"-", "p", "r", "e">>, <<"c">>>>,
       <<<<"-", "r", "e", "l", "e", "a", "s", "e">>, <<>>>>,
       <<<<".", "r", "e", "l", "e", "a", "s", "e">>, <<>>>>,
       <<<<"-", "s", "t", "a", "b", "l", "e">>, <<>>>>,
       <<<<"+">>, <<".">>>>,
       <<<<"_">>, <<".">>>>,
       <<<<" ">>, <<>>>>,
       <<<<".", "f", "i", "n", "a", "l">>, <<>>>>,
       <<<<"f", "i", "n", "a", "l">>, <<>>>> >>

\* The loop over Words from its n-th pair on.
RECURSIVE ReplaceWords(_, _)
ReplaceWords(s, n) ==
    IF n > Len(Words) THEN s
    ELSE ReplaceWords(replace(s, Words[n][1], Words[n][2]), n + 1)

\* The match of a pattern that starts at one position of a str: the position
\* after it (0 when the pattern does not match there) and what re.sub puts
\* in its place.
NoSub == [e |-> 0, r |-> <<>>]

Found(e, r) == [e |-> e, r |-> r]

\* re.sub over s from position i on, m[j] being the match of the pattern at
\* position j: the leftmost match is replaced and the scan goes on after it.
RECURSIVE SubFrom(_, _, _)
SubFrom(s, m, i) ==
    IF i > Len(s) THEN <<>>
    ELSE IF m[i].e > 0 THEN m[i].r \o SubFrom(s, m, m[i].e)
    ELSE <<s[i]>> \o SubFrom(s, m, i + 1)

\* Whether s has a character of the set S at position i.
CharIn(s, i, S) == i >= 1 /\ i <= Len(s) /\ s[i] \in S

\* The position after an optional character of S at i: the greedy [S]?.
OptIn(s, i, S) == IF CharIn(s, i, S) THEN i + 1 ELSE i

\* The regular expression's \w.
IsWord(c) ==
    \/ IsDigit(c)
    \/ c = "_"
    \/ \E i \in 1..Len(LowerChars) : c \in {LowerChars[i], UpperChars[i]}

\* (\d+)$ of s at d, replaced by prefix and the digits.
NumAt(s, d, prefix) ==
    IF DigitsEnd(s, d) > d /\ AtDollar(s, DigitsEnd(s, d))
    THEN Found(DigitsEnd(s, d), prefix \o SubSeq(s, d, DigitsEnd(s, d) - 1))
    ELSE NoSub

\* (lit1|lit2|...)\.?(\d+)$ of s at k from the n-th literal on (without the
\* \.? unless dot), replaced by prefix and the digits.
RECURSIVE AltNum(_, _, _, _, _, _)
AltNum(s, k, lits, n, dot, prefix) ==
    IF n > Len(lits) THEN NoSub
    ELSE IF /\ LitAt(s, k, lits[n])
            /\ NumAt(s, IF dot THEN OptIn(s, k + Len(lits[n]), {"."})
                        ELSE k + Len(lits[n]), prefix).e > 0
    THEN NumAt(s, IF dot THEN OptIn(s, k + Len(lits[n]), {"."})
                  ELSE k + Len(lits[n]), prefix)
    ELSE AltNum(s, k, lits, n + 1, dot, prefix)

\* (lit1|lit2|...)$ of s at k from the n-th literal on, replaced by repl.
RECURSIVE AltEnd(_, _, _, _, _)
AltEnd(s, k, lits, n, repl) ==
    IF n > Len(lits) THEN NoSub
    ELSE IF LitAt(s, k, lits[n]) /\ AtDollar(s, k + Len(lits[n]))
    THEN Found(k + Len(lits[n]), repl)
    ELSE AltEnd(s, k, lits, n + 1, repl)

\* pre$ -> pre0
PreAt(s, i) == AltEnd(s, i, <<<<"p", "r", "e">>>>, 1, <<"p", "r", "e", "0">>)

\* dev$ -> dev0
DevAt(s, i) == AltEnd(s, i, <<<<"d", "e", "v">>>>, 1, <<"d", "e", "v", "0">>)

\* ([abc]|rc)[\-\.](\d+)$ -> \1\2
TagSepAt(s, i) ==
    IF TagLen(s, i) > 0 /\ CharIn(s, i + TagLen(s, i), {"-", "."})
    THEN NumAt(s, i + TagLen(s, i) + 1, SubSeq(s, i, i + TagLen(s, i) - 1))
    ELSE NoSub

\* [\-\.](dev)[\-\.]?r?(\d+)$ -> .\1\2
DevSepAt(s, i) ==
    IF CharIn(s, i, {"-", "."}) /\ LitAt(s, i + 1, <<"d", "e", "v">>)
    THEN NumAt(s, OptIn(s, OptIn(s, i + 4, {"-", "."}), {"r"}), <<".", "d", "e", "v">>)
    ELSE NoSub

\* [.~]?([abc])\.? -> \1
TagDotAt(s, i) ==
    IF CharIn(s, i, {".", "~"}) /\ CharIn(s, i + 1, {"a", "b", "c"})
    THEN Found(OptIn(s, i + 2, {"."}), <<s[i + 1]>>)
    ELSE IF CharIn(s, i, {"a", "b", "c"})
    THEN Found(OptIn(s, i + 1, {"."}), <<s[i]>>)
    ELSE NoSub

\* if rs.startswith('v'): rs = rs[1:]
StripV(s) == IF CharIn(s, 1, {"v"}) THEN Tail(s) ELSE s

\* The digits n without their leading zeros, the last digit being kept: the
\* group (\d+) after the greedy 0+.
RECURSIVE StripZeros(_)
StripZeros(n) ==
    IF Len(n) > 1 /\ n[1] = "0" THEN StripZeros(Tail(n)) ELSE n

\* \b0+(\d+)(?!\d) -> \1
ZerosAt(s, i) ==
    IF /\ CharIn(s, i, {"0"})
       /\ i = 1 \/ ~ IsWord(s[i - 1])
       /\ DigitsEnd(s, i) > i + 1
    THEN Found(DigitsEnd(s, i), StripZeros(SubSeq(s, i, DigitsEnd(s, i) - 1)))
    ELSE NoSub

\* (\d+[abc])$ -> \g<1>0
TagEndAt(s, i) ==
    IF /\ DigitsEnd(s, i) > i
       /\ CharIn(s, DigitsEnd(s, i), {"a", "b", "c"})
       /\ AtDollar(s, DigitsEnd(s, i) + 1)
    THEN Found(DigitsEnd(s, i) + 1, SubSeq(s, i, DigitsEnd(s, i)) \o <<"0">>)
    ELSE NoSub

\* \.?(dev-r|dev\.r)\.?(\d+)$ -> .dev\2
DevRAt(s, i) ==
    AltNum(s, OptIn(s, i, {"."}), <<<<"d", "e", "v", "-", "r">>, <<"d", "e", "v", ".", "r">>>>, 1, TRUE, <<".", "d", "e", "v">>)

\* -(a|b|c)(\d+)$ -> \1\2
DashTagAt(s, i) ==
    IF CharIn(s, i, {"-"}) /\ CharIn(s, i + 1, {"a", "b", "c"})
    THEN NumAt(s, i + 2, <<s[i + 1]>>)
    ELSE NoSub

\* [\.\-](dev|devel)$ -> .dev0
DevelAt(s, i) ==
    IF CharIn(s, i, {".", "-"})
    THEN AltEnd(s, i + 1, <<<<"d", "e", "v">>, <<"d", "e", "v", "e", "l">>>>, 1, <<".", "d", "e", "v", "0">>)
    ELSE NoSub

\* (?![\.\-])dev$ -> .dev0
BareDevAt(s, i) ==
    IF ~ CharIn(s, i, {".", "-"})
    THEN AltEnd(s, i, <<<<"d", "e", "v">>>>, 1, <<".", "d", "e", "v", "0">>)
    ELSE NoSub

\* (final|stable)$ -> ''
FinalAt(s, i) == AltEnd(s, i, <<<<"f", "i", "n", "a", "l">>, <<"s", "t", "a", "b", "l", "e">>>>, 1, <<>>)

\* \.?(r|-|-r)\.?(\d+)$ -> .post\2
RevAt(s, i) ==
    AltNum(s, OptIn(s, i, {"."}), <<<<"r">>, <<"-">>, <<"-", "r">>>>, 1, TRUE, <<".", "p", "o", "s", "t">>)

\* \.?(dev|git|bzr)\.?(\d+)$ -> .dev\2
VcsAt(s, i) ==
    AltNum(s, OptIn(s, i, {"."}), <<<<"d", "e", "v">>, <<"g", "i", "t">>, <<"b", "z", "r">>>>, 1, TRUE, <<".", "d", "e", "v">>)

\* \.?(pre|preview|-c)(\d+)$ -> c\g<2>
PreviewAt(s, i) ==
    AltNum(s, OptIn(s, i, {"."}), <<<<"p", "r", "e">>, <<"p", "r", "e", "v", "i", "e", "w">>, <<"-", "c">>>>, 1, FALSE, <<"c">>)

\* p(\d+)$ -> .post\1
PatchAt(s, i) == AltNum(s, i, <<<<"p">>>>, 1, FALSE, <<".", "p", "o", "s", "t">>)

\* The match at position i of s of the pattern of the given name.
MatchAt(pattern, s, i) ==
    CASE pattern = "Pre" -> PreAt(s, i)
      [] pattern = "Dev" -> DevAt(s, i)
      [] pattern = "TagSep" -> TagSepAt(s, i)
      [] pattern = "DevSep" -> DevSepAt(s, i)
      [] pattern = "TagDot" -> TagDotAt(s, i)
      [] pattern = "Zeros" -> ZerosAt(s, i)
      [] pattern = "TagEnd" -> TagEndAt(s, i)
      [] pattern = "DevR" -> DevRAt(s, i)
      [] pattern = "DashTag" -> DashTagAt(s, i)
      [] pattern = "Devel" -> DevelAt(s, i)
      [] pattern = "BareDev" -> BareDevAt(s, i)
      [] pattern = "Final" -> FinalAt(s, i)
      [] pattern = "Rev" -> RevAt(s, i)
      [] pattern = "Vcs" -> VcsAt(s, i)
      [] pattern = "Preview" -> PreviewAt(s, i)
      [] pattern = "Patch" -> PatchAt(s, i)

\* re.sub of the pattern of the given name over s.
sub(pattern, s) ==
    SubFrom(s, [i \in 1..Len(s) |-> MatchAt(pattern, s, i)], 1)

\* The rewrites of suggest_normalized_version on rs = s.lower(), in the
\* order of the code (the innermost first): the words, five patterns, the
\* leading 'v' and eleven patterns more, the leading zeros first.
Rewritten(rs) ==
    sub("Patch", sub("Preview", sub("Vcs", sub("Rev",
    sub("Final", sub("BareDev", sub("Devel", sub("DashTag",
    sub("DevR", sub("TagEnd", sub("Zeros",
    StripV(
    sub("TagDot", sub("DevSep", sub("TagSep", sub("Dev", sub("Pre",
    ReplaceWords(rs, 1)
    )))))
    )
    )))
    ))))
    ))))

\* Whether Version(s) raises nothing.
IsRational(s) == __init__(s, TRUE, FALSE).raised = "none"

\* Suggested as it would be were the rewritten string returned as it is.
SuggestedUnchecked(rs) == Return(rs)

\* The end of suggest_normalized_version: rs when it is rational, else None.
Suggested(rs) == IF IsRational(rs) THEN Return(rs) ELSE Return(None)

\* suggest_normalized_version(s)
suggest_normalized_version(s) ==
    IF IsRational(s) THEN Return(s)
    ELSE Suggested(Rewritten(lower(s)))

(***************************************************************************)
(* SpecSuggest: a version string is normalized, the suggestion is parsed   *)
(* and normalized again                                                    *)
(***************************************************************************)

\* The strings handed to suggest_normalized_version: versions whose numeric
\* groups (Nums) and prerelease numbers have leading zeros or not, the
\* inputs of test_suggest_normalized_version (Tests) and a release, with a
\* 'v' before it or not, followed by a marking that the normalizer rewrites
\* or fails to (Marks).
SuggestInputs ==
    LET Nums == {<<"0">>, <<"1">>, <<"2">>, <<"0", "2">>, <<"0", "0">>,
                 <<"1", "0">>}
        Prereleases ==
            {<<>>}
            \cup {tag \o n :
                     tag \in {<<"a">>, <<"b">>, <<"c">>, <<"r", "c">>},
                     n \in {<<"1">>, <<"0", "3">>, <<"3", ".", "0", "4">>,
                           <<"0">>}}
        Tests ==
            {<<"1", ".", "0">>,
             <<"1", ".", "0", "-", "a", "l", "p", "h", "a", "1">>,
             <<"1", ".", "0", "c", "2">>,
             <<"w", "a", "l", "l", "a", " ", "w", "a", "l", "l", "a", " ", "w", "a", "s", "h", "i", "n", "g", "t", "o", "n">>,
             <<"2", ".", "4", "c", "1">>, <<"v", "1", ".", "0">>,
             <<"0", ".", "4", "a", "1", ".", "r", "1", "0">>,
             <<"0", ".", "7", "a", "1", "d", "e", "v", "-", "r", "6", "6", "6", "0", "8">>,
             <<"0", ".", "6", "a", "9", ".", "d", "e", "v", "-", "r", "4", "1", "4", "7", "5">>,
             <<"2", ".", "4", "p", "r", "e", "v", "i", "e", "w", "1">>,
             <<"2", ".", "4", "p", "r", "e", "1">>,
             <<"2", ".", "1", "-", "r", "c", "2">>,
             <<"0", ".", "1", "d", "e", "v">>,
             <<"0", ".", "1", ".", "d", "e", "v">>,
             <<"9", ".", "0", ".", "0", "+", "r", "2", "3", "6", "3">>,
             <<"9", ".", "0", ".", "0", "p", "r", "e", "1">>,
             <<"1", ".", "4", "p", "1">>}
        Marks ==
            {<<"-", "a", "l", "p", "h", "a", "1">>,
             <<"a", "l", "p", "h", "a">>, <<"b", "e", "t", "a", "2">>,
             <<"-", "b", "e", "t", "a">>, <<"-", "f", "i", "n", "a", "l">>,
             <<"f", "i", "n", "a", "l">>, <<".", "f", "i", "n", "a", "l">>,
             <<"-", "p", "r", "e", "1">>, <<"p", "r", "e">>,
             <<"p", "r", "e", "1">>,
             <<"p", "r", "e", "v", "i", "e", "w", "1">>,
             <<"-", "r", "e", "l", "e", "a", "s", "e">>,
             <<".", "r", "e", "l", "e", "a", "s", "e">>,
             <<"-", "s", "t", "a", "b", "l", "e">>,
             <<"s", "t", "a", "b", "l", "e">>, <<"d", "e", "v">>,
             <<"-", "d", "e", "v">>, <<".", "d", "e", "v">>,
             <<"d", "e", "v", "e", "l">>, <<".", "d", "e", "v", "e", "l">>,
             <<"d", "e", "v", "-", "r", "5">>,
             <<"d", "e", "v", ".", "r", "5">>,
             <<".", "d", "e", "v", "-", "r", "5">>, <<"-", "r", "5">>,
             <<".", "r", "5">>, <<"r", "5">>, <<"+", "r", "5">>,
             <<"_", "1">>, <<" ">>, <<"p", "1">>, <<"-", "c", "1">>,
             <<"g", "i", "t", "5">>, <<"b", "z", "r", "5">>,
             <<".", "g", "i", "t", ".", "5">>, <<"~", "a", "1">>,
             <<".", "a", ".", "1">>, <<"a", "-", "1">>, <<"a", ".", "1">>,
             <<"r", "c", "-", "1">>, <<"r", "c", ".", "1">>,
             <<".", "d", "e", "v", "-", "5">>,
             <<".", "d", "e", "v", ".", "r", "5">>, <<"a">>, <<"1", "a">>,
             <<"-", "a", "1">>, <<"-", "5">>, <<"+">>, <<"R", "C", "1">>,
             <<"A", "1">>, <<"x">>, <<".", "d", "e", "v", ".", "5">>,
             <<"-", "d", "e", "v", "5">>, <<"b", "1", "d", "e", "v">>,
             <<".", "b", "2">>, <<"1", ".", "2", ".", "3">>,
             <<"a", "1", ".", "d", "e", "v", "-", "r", "7">>,
             <<".", "p", "o", "s", "t", "1", ".", "d", "e", "v">>}
    IN  {a \o <<".">> \o b \o p \o d :
             a \in Nums, b \in Nums, p \in Prereleases,
             d \in {<<>>, POST \o <<"1">>, DEV \o <<"2">>, <<"\n">>}}
        \cup Tests
        \cup {v \o r \o m \o n :
                 v \in {<<>>, <<"v">>, <<"V">>},
                 r \in {<<"1", ".", "0">>, <<"0", ".", "4", "a", "1">>},
                 m \in Marks,
                 n \in {<<>>, <<"\n">>}}

InitSuggest ==
    /\ pc = "start"
    /\ args \in [s : SuggestInputs]
    /\ objs = <<>>
    /\ raised = "none"
    /\ ret = <<>>

\* The effect of a call of suggest_normalized_version with the result r.
SuggestedAs(r, done, nothing) ==
    /\ ret' = Append(ret, r.value)
    /\ raised' = r.raised
    /\ pc' = IF r.raised # "none" THEN "failed"
             ELSE IF r.value = None THEN nothing
             ELSE done

\* rs = suggest_normalized_version(s)
Suggest ==
    /\ pc = "start"
    /\ SuggestedAs(suggest_normalized_version(args.s), "suggested", "nothing")
    /\ UNCHANGED <<args, objs>>

\* Version(rs)
ParseSuggested ==
    /\ pc = "suggested"
    /\ Constructed(__init__(ret[1], TRUE, FALSE))
    /\ UNCHANGED <<args, ret>>

\* suggest_normalized_version(rs)
SuggestAgain ==
    /\ pc = "constructed"
    /\ SuggestedAs(suggest_normalized_version(ret[1]), "again", "again")
    /\ UNCHANGED <<args, objs>>

NextSuggest == Suggest \/ ParseSuggested \/ SuggestAgain

SpecSuggest == InitSuggest /\ [][NextSuggest]_vars

\* C14: suggest_normalized_version never raises; it returns a string that
\* already parses unchanged; and what it returns is None or a string that
\* parses and that it returns unchanged when called again.
C14_SuggestIdempotent ==
    /\ pc # "failed" /\ raised = "none"
    /\ pc # "start" /\ IsRational(args.s) => ret[1] = args.s
    /\ pc = "again" => ret[2] = ret[1]

\* C14 witness: a string that does not parse was rewritten, the suggestion
\* was parsed and suggest_normalized_version returned it unchanged.
C14_Witness ==
    /\ pc = "again"
    /\ ~ IsRational(args.s)
    /\ ret[1] # args.s
    /\ Len(objs) = 1
    /\ ret[2] = ret[1]

\* s with the extra leading zeros of every numeric group before a post or
\* dev marker removed, from position i on.
RECURSIVE Unzero(_, _)
Unzero(s, i) ==
    IF i > Len(s) THEN <<>>
    ELSE IF LitAt(s, i, POST) \/ LitAt(s, i, DEV) THEN SubSeq(s, i, Len(s))
    ELSE IF IsDigit(s[i])
    THEN StripZeros(SubSeq(s, i, DigitsEnd(s, i) - 1))
         \o Unzero(s, DigitsEnd(s, i))
    ELSE <<s[i]>> \o Unzero(s, i + 1)

\* C19: for a string s that differs from a valid version string t only by
\* extra leading zeros in groups of the release or of the prerelease
\* numbers, suggest_normalized_version(s) is t.
C19_LeadingZerosStripped ==
    /\ pc \in {"suggested", "nothing"}
    /\ Unzero(args.s, 1) # args.s
    /\ IsRational(Unzero(args.s, 1))
    => ret[1] = Unzero(args.s, 1)

(***************************************************************************)
(* class VersionPredicate                                                  *)
(***************************************************************************)

\* The regular expression's \s.
IsSpace(c) == c \in {" ", "\n"}

\* The position after the longest run of whitespace of s at i: the greedy
\* \s*.
RECURSIVE SpaceEnd(_, _)
SpaceEnd(s, i) ==
    IF i <= Len(s) /\ IsSpace(s[i]) THEN SpaceEnd(s, i + 1) ELSE i

\* Whether s is whitespace from i to its end: \s*$
SpaceToEnd(s, i) == SpaceEnd(s, i) > Len(s)

\* s.strip()
strip(s) ==
    IF SpaceToEnd(s, 1) THEN <<>>
    ELSE SubSeq(s, SpaceEnd(s, 1),
                CHOOSE k \in 1..Len(s) :
                    ~ IsSpace(s[k]) /\ SpaceToEnd(s, k + 1))

\* s.split(",")
RECURSIVE split_comma(_)
split_comma(s) ==
    IF \A i \in 1..Len(s) : s[i] # "," THEN <<s>>
    ELSE LET d == CHOOSE i \in 1..Len(s) :
                      s[i] = "," /\ \A j \in 1..(i - 1) : s[j] # ","
         IN  <<SubSeq(s, 1, d - 1)>>
             \o split_comma(SubSeq(s, d + 1, Len(s)))

\* a.startswith(b)
startswith(a, b) == Len(b) <= Len(a) /\ SubSeq(a, 1, Len(b)) = b

\* The position after the longest [\s\w-]* of s at i.
RECURSIVE NameEnd(_, _)
NameEnd(s, i) ==
    IF i <= Len(s) /\ (IsSpace(s[i]) \/ IsWord(s[i]) \/ s[i] = "-")
    THEN NameEnd(s, i + 1)
    ELSE i

\* The position after the longest \w* of s at i.
RECURSIVE WordEnd(_, _)
WordEnd(s, i) ==
    IF i <= Len(s) /\ IsWord(s[i]) THEN WordEnd(s, i + 1) ELSE i

\* The position after the longest (?:\.\w*)* of s at i.
RECURSIVE DotWordsEnd(_, _)
DotWordsEnd(s, i) ==
    IF i <= Len(s) /\ s[i] = "." THEN DotWordsEnd(s, WordEnd(s, i + 1))
    ELSE i

\* The position after the longest .* of s at i: '.' matches no newline.
RECURSIVE LineEnd(_, _)
LineEnd(s, i) ==
    IF i <= Len(s) /\ s[i] # "\n" THEN LineEnd(s, i + 1) ELSE i

\* The groups of _PREDICATE when the name is s[b..e-1].
PredicateGroups(s, b, e) ==
    [match      |-> TRUE,
     name       |-> SubSeq(s, b, e - 1),
     predicates |-> SubSeq(s, e, LineEnd(s, e) - 1)]

\* _PREDICATE.match(s): (?i)^\s*(\w[\s\w-]*(?:\.\w*)*)(.*)
_PREDICATE(s) ==
    IF SpaceEnd(s, 1) <= Len(s) /\ IsWord(s[SpaceEnd(s, 1)])
    THEN PredicateGroups(s, SpaceEnd(s, 1),
                         DotWordsEnd(s, NameEnd(s, SpaceEnd(s, 1) + 1)))
    ELSE [match |-> FALSE, name |-> <<>>, predicates |-> <<>>]

\* The positions of a ')' of s that can end the group versions, which
\* starts after the '(' at b: no newline before it, whitespace after it.
VersionsEnds(s, b) ==
    {k \in (b + 1)..Len(s) :
        /\ s[k] = ")"
        /\ SpaceToEnd(s, k + 1)
        /\ \A j \in (b + 1)..(k - 1) : s[j] # "\n"}

\* ^\s*\((?P<versions>.*)\)\s*$ on s, whose leading whitespace ends at b.
VersionsAt(s, b) ==
    IF b <= Len(s) /\ s[b] = "(" /\ VersionsEnds(s, b) # {}
    THEN [match    |-> TRUE,
          versions |-> SubSeq(s, b + 1,
                              (CHOOSE k \in VersionsEnds(s, b) :
                                  \A j \in VersionsEnds(s, b) : j <= k) - 1)]
    ELSE [match |-> FALSE, versions |-> <<>>]

\* _VERSIONS.match(s)
_VERSIONS(s) == VersionsAt(s, SpaceEnd(s, 1))

\* The comparison operators of _SPLIT_CMP, in the order of its alternation.
Comparators == <<<<"<", "=">>, <<">", "=">>, <<"<">>, <<">">>, <<"!", "=">>, <<"=", "=">>>>

\* The position after the longest [^\s,]* of s at i.
RECURSIVE TokenEnd(_, _)
TokenEnd(s, i) ==
    IF i <= Len(s) /\ ~ IsSpace(s[i]) /\ s[i] # ","
    THEN TokenEnd(s, i + 1)
    ELSE i

\* \s*([^\s,]+)\s*$ of s at i: the group, or <<>> when it does not match.
VersionToken(s, i) ==
    IF /\ TokenEnd(s, SpaceEnd(s, i)) > SpaceEnd(s, i)
       /\ SpaceToEnd(s, TokenEnd(s, SpaceEnd(s, i)))
    THEN SubSeq(s, SpaceEnd(s, i), TokenEnd(s, SpaceEnd(s, i)) - 1)
    ELSE <<>>

\* (<=|>=|<|>|!=|==)\s*([^\s,]+)\s*$ of s at k, from the n-th operator on.
RECURSIVE SplitCmpAt(_, _, _)
SplitCmpAt(s, k, n) ==
    IF n > Len(Comparators)
    THEN [match |-> FALSE, comp |-> <<>>, version |-> <<>>]
    ELSE IF /\ LitAt(s, k, Comparators[n])
            /\ VersionToken(s, k + Len(Comparators[n])) # <<>>
    THEN [match   |-> TRUE,
          comp    |-> Comparators[n],
          version |-> VersionToken(s, k + Len(Comparators[n]))]
    ELSE SplitCmpAt(s, k, n + 1)

\* _SPLIT_CMP.match(s)
_SPLIT_CMP(s) == SplitCmpAt(s, SpaceEnd(s, 1), 1)

\* (comp, Version(version)), v being the result of Version(version).
Clause(comp, v) ==
    IF v.raised # "none" THEN Raise(v.raised)
    ELSE Return([operator |-> comp, predicate |-> v.value])

\* _split_predicate after the match m of _SPLIT_CMP.
SplitMatched(predicate, m) ==
    IF ~ m.match THEN Clause(<<"=", "=">>, __init__(predicate, TRUE, FALSE))
    ELSE Clause(m.comp, __init__(m.version, TRUE, FALSE))

\* _split_predicate(predicate)
_split_predicate(predicate) == SplitMatched(predicate, _SPLIT_CMP(predicate))

\* The clause c before the clauses rest, or the error of the first that
\* raised.
Appended(c, rest) ==
    IF c.raised # "none" THEN c
    ELSE IF rest.raised # "none" THEN rest
    ELSE Return(<<c.value>> \o rest.value)

\* The loop of VersionPredicate.__init__ over versions.split(",") from its
\* n-th element on.
RECURSIVE Clauses(_, _)
Clauses(versions, n) ==
    IF n > Len(versions) THEN Return(<<>>)
    ELSE IF strip(versions[n]) = <<>> THEN Clauses(versions, n + 1)
    ELSE Appended(_split_predicate(versions[n]), Clauses(versions, n + 1))

\* The object VersionPredicate.__init__ leaves with the clauses c, or the
\* error of c.
NewPredicate(predicate, name, c) ==
    IF c.raised # "none" THEN Raise(c.raised)
    ELSE Return([cls        |-> "VersionPredicate",
                 _string    |-> predicate,
                 name       |-> strip(name),
                 predicates |-> c.value])

\* VersionPredicate.__init__ after _VERSIONS.match: groupdict() of no match
\* is an AttributeError.
PredicateVersions(predicate, name, m) ==
    IF ~ m.match THEN Raise("AttributeError")
    ELSE NewPredicate(predicate, name, Clauses(split_comma(m.versions), 1))

\* VersionPredicate.__init__ after _PREDICATE.match.
PredicateMatched(predicate, m) ==
    IF ~ m.match THEN Raise("ValueError")
    ELSE IF m.predicates = <<>>
    THEN NewPredicate(predicate, m.name, Return(<<>>))
    ELSE PredicateVersions(predicate, m.name, _VERSIONS(strip(m.predicates)))

\* VersionPredicate(predicate): the object constructed, or the error raised.
VersionPredicate(predicate) ==
    PredicateMatched(predicate, _PREDICATE(strip(predicate)))

\* VersionPredicate._operators as they would be had '<=' and '>=' no prefix
\* shortcut.
OperatorsPlain(operator, x, y) ==
    CASE operator = <<"<">> -> __lt__(x, y).value
      [] operator = <<">">> -> __gt__(x, y).value
      [] operator = <<"<", "=">> -> __le__(x, y).value
      [] operator = <<">", "=">> -> __ge__(x, y).value
      [] operator = <<"=", "=">> -> startswith(__str__(x), __str__(y))
      [] operator = <<"!", "=">> -> ~ startswith(__str__(x), __str__(y))

\* VersionPredicate._operators[operator](x, y)
_operators(operator, x, y) ==
    CASE operator = <<"<">> -> __lt__(x, y).value
      [] operator = <<">">> -> __gt__(x, y).value
      [] operator = <<"<", "=">> ->
            startswith(__str__(x), __str__(y)) \/ __lt__(x, y).value
      [] operator = <<">", "=">> ->
            startswith(__str__(x), __str__(y)) \/ __gt__(x, y).value
      [] operator = <<"=", "=">> -> startswith(__str__(x), __str__(y))
      [] operator = <<"!", "=">> -> ~ startswith(__str__(x), __str__(y))

\* The loop of match over self.predicates from the n-th clause on.
RECURSIVE MatchFrom(_, _, _)
MatchFrom(self, version, n) ==
    IF n > Len(self.predicates) THEN TRUE
    ELSE IF ~ _operators(self.predicates[n].operator, version,
                         self.predicates[n].predicate)
    THEN FALSE
    ELSE MatchFrom(self, version, n + 1)

\* match after Version(version), whose result is v.
MatchParsed(self, v) ==
    IF v.raised # "none" THEN Raise(v.raised)
    ELSE Return(MatchFrom(self, v.value, 1))

\* VersionPredicate.match(version): a str is parsed first.
match(self, version) ==
    IF version.cls = "str"
    THEN MatchParsed(self, __init__(version.value, TRUE, FALSE))
    ELSE Return(MatchFrom(self, version, 1))

(***************************************************************************)
(* SpecPredicate: a predicate is constructed and matched with a version    *)
(***************************************************************************)

\* The names and the versions of the clauses of the predicates enumerated.
PredicateNames == {<<"H", "e", "y">>,
                    <<"z", "o", "p", "e", ".", "e", "v", "e", "n", "t">>,
                    <<"F", "o", "o", " ", "B", "a", "r">>}

ClauseVersions ==
    {<<"2", ".", "5">>, <<"2", ".", "6">>, <<"3", ".", "0">>,
     <<"2", ".", "5", ".", "0">>, <<"1", ".", "0", "a", "1">>,
     <<"1", ".", "0", ".", "p", "o", "s", "t", "1">>, <<"b", "a", "d">>}

\* The strings handed to VersionPredicate: a name and one clause, with an
\* operator or none, in parentheses; the predicates of
\* test_predicates_match, test_predicate_name and test_micro_predicate
\* (Tests); and predicates outside the grammar or at its edges (Odd).
PredicateInputs ==
    LET Tests ==
            {<<"H", "e", "y", " ", "(", ">", "=", "2", ".", "5", ",", "<", "2", ".", "7", ")">>,
             <<"H", "o">>, <<"H", "o", " ", "(", "<", "3", ".", "0", ")">>,
             <<"H", "o", " ", "(", "<", "3", ".", "0", ",", "!", "=", "2", ".", "5", ")">>,
             <<"H", "o", " ", "(", "2", ".", "5", ")">>,
             <<"H", "e", "y", " ", "(", "<", "=", "2", ".", "5", ")">>,
             <<"H", "e", "y", " ", "(", ">", "=", "2", ".", "5", ")">>,
             <<"H", "e", "y", " ", "2", ".", "5">>,
             <<"v", "i", "r", "t", "u", "a", "l", "e", "n", "v", "5", " ", "(", "1", ".", "0", ")">>,
             <<"v", "i", "r", "t", "u", "a", "l", "e", "n", "v", "5">>,
             <<"v", "i", "5", "t", "w", "o">>, <<"5", "t", "w", "o">>,
             <<"v", "i", "5", "t", "w", "o", " ", "1", ".", "0">>,
             <<"5", "t", "w", "o", " ", "1", ".", "0">>,
             <<"H", "e", "y", " ", "(", ">", "=", "2", ".", "5", ",", "!", "=", "2", ".", "6", ",", "<", "2", ".", "7", ")">>,
             <<"H", "o", " ", "(", "<", "3", ".", "0", ",", "!", "=", "2", ".", "6", ")">>,
             <<"H", "o", " ", "(", "!", "=", "2", ".", "5", ")">>,
             <<"z", "o", "p", "e", ".", "e", "v", "e", "n", "t", " ", "(", "3", ".", "4", ".", "0", ")">>,
             <<"F", "o", "o", "-", "B", "a", "r", " ", "(", "1", ".", "1", ")">>}
        Odd ==
            {<<>>, <<" ">>, <<"\n">>,
             <<"c", "u", "s", "t", "o", "m", "_", "s", "e", "t", "u", "p", "_", "c", "o", "m", "m", "a", "n", "d", " ", ")">>,
             <<"c", "u", "s", "t", "o", "m", "_", "s", "e", "t", "u", "p", "_", "c", "o", "m", "m", "a", "n", "d">>,
             <<"H", "e", "y", " ", "(">>, <<"H", "e", "y", " ", ")">>,
             <<"H", "e", "y", " ", "(", "2", ".", "5">>,
             <<"H", "e", "y", " ", "2", ".", "5", ")">>,
             <<"H", "e", "y", " ", "(", "2", ".", "5", ")", " ", "x">>,
             <<"(", "2", ".", "5", ")">>,
             <<"H", "e", "y", " ", "x", " ", "(">>,
             <<"H", "e", "y", " ", "(", "2", ".", "5", ",", " ", "2", ".", "6", ")">>,
             <<"H", "e", "y", " ", "(", " ", "2", ".", "5", ")">>,
             <<"H", "e", "y", " ", "(", "2", ".", "5", " ", ")">>,
             <<"H", "e", "y", " ", "(", "=", "=", "2", ".", "5", ",", " ", "=", "=", "2", ".", "6", ")">>,
             <<"H", "e", "y", " ", "(", " ", "=", "=", "2", ".", "5", " ", ")">>,
             <<"H", "e", "y", " ", "(", ",", ")">>,
             <<"H", "e", "y", " ", "(", ")">>,
             <<"H", "e", "y", " ", "(", "2", ".", "5", ",", ")">>,
             <<" ", "H", "e", "y", " ", "(", "2", ".", "5", ")", " ">>,
             <<"H", "e", "y", "(", "2", ".", "5", ")">>,
             <<"H", "e", "y", "\n", "(", "2", ".", "5", ")">>,
             <<"H", "e", "y", " ", "(", "2", ".", "5", ")", "\n", ")">>,
             <<"H", "e", "y", " ", "<", "2", ".", "5">>,
             <<"H", "e", "y", " ", "(", "<", ")">>,
             <<"H", "e", "y", " ", "(", "<", "=", ")">>,
             <<"H", "e", "y", " ", "(", "=", "2", ".", "5", ")">>}
    IN  {n \o <<" ", "(">> \o o \o v \o <<")">> :
             n \in PredicateNames,
             o \in {<<>>} \cup {Comparators[k] : k \in 1..Len(Comparators)},
             v \in ClauseVersions}
        \cup Tests
        \cup Odd

\* The versions handed to match: strings, and a Version.
Candidates ==
    {[cls |-> "str", value |-> v] :
         v \in {<<"2", ".", "6">>, <<"2", ".", "5">>,
               <<"2", ".", "5", ".", "4">>, <<"2", ".", "5", ".", "9">>,
               <<"2", ".", "6", ".", "0">>, <<"1", ".", "0">>,
               <<"3", ".", "0">>,
               <<"2", ".", "5", ".", "p", "o", "s", "t", "1">>,
               <<"1", ".", "0", "a", "1">>,
               <<"1", ".", "0", ".", "p", "o", "s", "t", "1">>,
               <<"1", ".", "0", ".", "p", "o", "s", "t", "1", "2">>,
               <<"b", "a", "d">>}}
    \cup {__init__(<<"2", ".", "5", ".", "1">>, TRUE, FALSE).value}

InitPredicate ==
    /\ pc = "start"
    /\ args \in [predicate : PredicateInputs, version : Candidates]
    /\ objs = <<>>
    /\ raised = "none"
    /\ ret = None

\* p = VersionPredicate(predicate)
ConstructPredicate ==
    /\ pc = "start"
    /\ Constructed(VersionPredicate(args.predicate))
    /\ UNCHANGED <<args, ret>>

\* p.match(version)
Match ==
    /\ pc = "constructed"
    /\ ret' = match(objs[1], args.version).value
    /\ raised' = match(objs[1], args.version).raised
    /\ pc' = IF raised' = "none" THEN "matched" ELSE "refused"
    /\ UNCHANGED <<args, objs>>

NextPredicate == ConstructPredicate \/ Match

SpecPredicate == InitPredicate /\ [][NextPredicate]_vars

\* The Version of the candidate handed to match.
Candidate ==
    IF args.version.cls = "str"
    THEN __init__(args.version.value, TRUE, FALSE).value
    ELSE args.version

\* Whether the clause c holds for the version v, in the words of C15.
ClauseHolds(c, v) ==
    CASE c.operator = <<"=", "=">> ->
            startswith(__str__(v), __str__(c.predicate))
      [] c.operator = <<"!", "=">> ->
            ~ startswith(__str__(v), __str__(c.predicate))
      [] c.operator = <<"<", "=">> ->
            \/ startswith(__str__(v), __str__(c.predicate))
            \/ Holds(__lt__(v, c.predicate))
      [] c.operator = <<">", "=">> ->
            \/ startswith(__str__(v), __str__(c.predicate))
            \/ Holds(__gt__(v, c.predicate))
      [] c.operator = <<"<">> -> Holds(__lt__(v, c.predicate))
      [] c.operator = <<">">> -> Holds(__gt__(v, c.predicate))

\* C15: match(v) is true iff every clause of the predicate holds for v: '=='
\* iff str(v) starts with str(w), '!=' its negation, '<=' and '>=' iff the
\* prefix holds or v < w, v > w, and '<', '>' the plain ordering; a
\* predicate with no clauses matches every valid version.
C15_MatchAllClauses ==
    pc = "matched"
    => ret = \A n \in 1..Len(objs[1].predicates) :
                 ClauseHolds(objs[1].predicates[n], Candidate)

\* C15 witness: a predicate with a clause '<=' matched a version that is
\* neither below nor equal to the version of the clause, by the prefix.
C15_Witness ==
    /\ pc = "matched"
    /\ ret = TRUE
    /\ \E n \in 1..Len(objs[1].predicates) :
          /\ objs[1].predicates[n].operator = <<"<", "=">>
          /\ ~ Holds(__le__(Candidate, objs[1].predicates[n].predicate))

\* Whether t is a list of clauses in parentheses.
Parenthesized(t) == Len(t) >= 2 /\ t[1] = "(" /\ t[Len(t)] = ")"

\* Whether the predicate string p is outside the grammar of predicates: it
\* is empty or whitespace, or its name is followed by text that is no list
\* of clauses in parentheses.
Malformed(p) ==
    \/ strip(p) = <<>>
    \/ /\ _PREDICATE(strip(p)).match
       /\ strip(_PREDICATE(strip(p)).predicates) # <<>>
       /\ ~ Parenthesized(strip(_PREDICATE(strip(p)).predicates))

\* C16: constructing a VersionPredicate from a string outside the grammar
\* of predicates fails with ValueError, and with no other error.
C16_MalformedIsValueError ==
    pc # "start" /\ Malformed(args.predicate)
    => pc = "failed" /\ raised = "ValueError"

(***************************************************************************)
(* SpecClause: a predicate whose last clause has no operator and the same  *)
(* predicate with '==' before that clause are constructed and matched      *)
(***************************************************************************)

\* The predicates differ in the '==' only; the clause has whitespace
\* around it or not, as after a comma, and a clause before it or not.
InitClause ==
    /\ pc = "start"
    /\ \E n \in PredicateNames, v \in ClauseVersions, c \in Candidates,
          b \in {<<>>, <<"<", "3", ".", "0", ",">>},
          w1 \in {<<>>, <<" ">>}, w2 \in {<<>>, <<" ">>} :
          args = [predicate |-> n \o <<" ", "(">> \o b \o w1 \o v \o w2 \o <<")">>,
                  explicit  |-> n \o <<" ", "(">> \o b \o <<"=", "=">> \o w1 \o v \o w2
                                \o <<")">>,
                  version   |-> c]
    /\ objs = <<>>
    /\ raised = <<"none", "none">>
    /\ ret = None

\* p = VersionPredicate('N (C)'); e = VersionPredicate('N (==C)')
ConstructBoth ==
    /\ pc = "start"
    /\ objs' = <<VersionPredicate(args.predicate).value,
                 VersionPredicate(args.explicit).value>>
    /\ raised' = <<VersionPredicate(args.predicate).raised,
                   VersionPredicate(args.explicit).raised>>
    /\ pc' = IF raised' = <<"none", "none">> THEN "constructed" ELSE "failed"
    /\ UNCHANGED <<args, ret>>

\* p.match(version); e.match(version)
MatchBoth ==
    /\ pc = "constructed"
    /\ ret' = <<match(objs[1], args.version), match(objs[2], args.version)>>
    /\ pc' = "matched"
    /\ UNCHANGED <<args, objs, raised>>

NextClause == ConstructBoth \/ MatchBoth

SpecClause == InitClause /\ [][NextClause]_vars

\* C17: a predicate with a clause without operator is accepted in the same
\* cases as the predicate with '==' written before that clause, whitespace
\* around the clause or not, and matches the same versions.
C17_DefaultOperator ==
    /\ pc # "start" => (raised[1] = "none" <=> raised[2] = "none")
    /\ pc = "matched" => ret[1] = ret[2]

====
